---- MODULE Spec2Model ----
(***************************************************************************)
(* Model of the LiveInterface component of src/components/ChatInterface.tsx *)
(* (the duplex audio session: startSession, cleanup, toggleMute and the    *)
(* callbacks handed to ai.live.connect), and of the ChatInterface component *)
(* of the same file (the text chat: handleSend).                            *)
(*                                                                          *)
(* Every handler of the component runs to completion on the event loop, so *)
(* each action below is one handler (or the part of startSession on one    *)
(* side of its await).  React state is the state the next handler reads:   *)
(* when one handler calls the same setter twice, the last call wins.       *)
(***************************************************************************)
EXTENDS Integers, Naturals, FiniteSets, Sequences, TLC

\* ---------------------------------------------------------------- bounds
MaxSessions == 2      \* startSession calls that pass the key check
MaxVoices   == 2      \* sources that exist at the same time
MaxTime     == 2      \* ticks of the output context's clock
MaxFrames   == 2      \* capture callbacks over the run
MaxSends    == 2      \* handleSend calls that pass its checks
MaxChunks   == 2      \* chunks of one response stream

\* Durations of the audio buffers the service sends, in ticks.
Durations == {1, 2}

Sessions == 1..MaxSessions
Voices   == 1..MaxVoices
Null     == 0

\* The five resources one startSession acquires.  A resource is named by
\* its kind and by the session whose code created it.
Kinds == {"ictx", "octx", "stream", "source", "processor"}

VARIABLES
    apiKey,             \* prop apiKey: TRUE when non-empty
    settingsOpened,     \* onOpenSettings() has been called
    status,             \* useState status
    isActive,           \* useState isActive
    isMuted,            \* useState isMuted
    errorMessage,       \* useState errorMessage
    inputContextRef,    \* refs: Null or the session that created the object
    outputContextRef,
    streamRef,
    scriptProcessorRef,
    inputSourceRef,
    nextStartTimeRef,   \* playback cursor
    sourcesRef,         \* set of voices
    sessionRef,
    \* ---- the world outside the component
    nextSession,        \* id of the next startSession call
    pc,                 \* where each startSession call / connection is
    mutedAtStart,       \* isMuted as captured by the closures of a call
    promise,            \* sessionPromise of each call
    queued,             \* then-callbacks waiting on sessionPromise, by frame
    captured,           \* onaudioprocess calls so far; the n-th is frame n
    framesSent,         \* sendRealtimeInput calls so far: <<session, frame>>
    acquired,           \* [kind][session]: the object was created
    relCount,           \* [kind][session]: times it was released
    procCtx,            \* input context a processor is attached to
    procStream,         \* stream a processor's source reads
    currentTime,        \* outputContextRef.current.currentTime
    voice,              \* per source node: state, and when its buffer ends
    lastEnd,            \* <<end of the latest source started>>, <<>> after
                        \* a flush
    messageFailed,      \* an onmessage call has ended in an exception
    \* ---- ChatInterface
    messages,           \* useState messages
    input,              \* useState input: TRUE when input.trim() is not empty
    isLoading,          \* useState isLoading
    sendPc,             \* where the handleSend call in flight is
    hasAddedMessage,    \* local of handleSend
    modelMsgId,         \* local of handleSend: the message with that id
    history             \* history given to ai.chats.create by the last call

vars == <<apiKey, settingsOpened, status, isActive, isMuted, errorMessage,
          inputContextRef, outputContextRef, streamRef, scriptProcessorRef,
          inputSourceRef, nextStartTimeRef, sourcesRef, sessionRef,
          nextSession, pc, mutedAtStart, promise, queued, captured,
          framesSent, acquired, relCount, procCtx, procStream, currentTime,
          voice, lastEnd, messageFailed, messages, input, isLoading,
          sendPc, hasAddedMessage, modelMsgId, history>>

\* The state of ChatInterface.
chatVars == <<messages, input, isLoading, sendPc, hasAddedMessage,
              modelMsgId, history>>

\* The state of LiveInterface and of what it talks to.
liveVars == <<settingsOpened, status, isActive, isMuted, errorMessage,
              inputContextRef, outputContextRef, streamRef,
              scriptProcessorRef, inputSourceRef, nextStartTimeRef,
              sourcesRef, sessionRef, nextSession, pc, mutedAtStart, promise,
              queued, captured, framesSent, acquired, relCount, procCtx,
              procStream, currentTime, voice, lastEnd, messageFailed>>

\* A message of the chat: who wrote it, what it is, how many chunks its text
\* is made of, and the isPartial flag (absent reads as false).
Msg(role, kind, text, partial) ==
    [role |-> role, kind |-> kind, text |-> text, isPartial |-> partial]

\* A source node that is not playing has no end time.
Idle(state) == [st |-> state, end |-> 0]

Init ==
    /\ apiKey \in BOOLEAN
    /\ settingsOpened = FALSE
    /\ status = "idle"
    /\ isActive = FALSE
    /\ isMuted = FALSE
    /\ errorMessage = ""
    /\ inputContextRef = Null
    /\ outputContextRef = Null
    /\ streamRef = Null
    /\ scriptProcessorRef = Null
    /\ inputSourceRef = Null
    /\ nextStartTimeRef = 0
    /\ sourcesRef = {}
    /\ sessionRef = Null
    /\ nextSession = 1
    /\ pc = [s \in Sessions |-> "unused"]
    /\ mutedAtStart = [s \in Sessions |-> FALSE]
    /\ promise = [s \in Sessions |-> "none"]
    /\ queued = [s \in Sessions |-> <<>>]
    /\ captured = 0
    /\ framesSent = <<>>
    /\ acquired = [k \in Kinds |-> [s \in Sessions |-> FALSE]]
    /\ relCount = [k \in Kinds |-> [s \in Sessions |-> 0]]
    /\ procCtx = [s \in Sessions |-> Null]
    /\ procStream = [s \in Sessions |-> Null]
    /\ currentTime = 0
    /\ voice = [v \in Voices |-> Idle("unused")]
    /\ lastEnd = <<>>
    /\ messageFailed = FALSE
    /\ messages = <<Msg("model", "welcome", 1, FALSE)>>
    /\ input = FALSE
    /\ isLoading = FALSE
    /\ sendPc = "idle"
    /\ hasAddedMessage = FALSE
    /\ modelMsgId = 0
    /\ history = <<>>

\* ------------------------------------------------------------- resources
Acquire(acq, k, s) == [acq EXCEPT ![k][s] = TRUE]

\* ref.current.close() / disconnect() / track.stop() on the object a ref holds
Release(rc, k, ref) == IF ref = Null THEN rc ELSE [rc EXCEPT ![k][ref] = @ + 1]

Live(k, s) == acquired[k][s] /\ relCount[k][s] = 0

\* ---------------------------------------------------------------- cleanup
\* source.stop() on every member of sourcesRef
StopAll(vs, set) ==
    [v \in Voices |-> IF v \in set
                      THEN Idle("stopped")
                      ELSE vs[v]]

\* The component state cleanup() works on, as a record.
Held == [status |-> status, isActive |-> isActive,
         inputContextRef |-> inputContextRef,
         outputContextRef |-> outputContextRef,
         streamRef |-> streamRef,
         scriptProcessorRef |-> scriptProcessorRef,
         inputSourceRef |-> inputSourceRef,
         nextStartTimeRef |-> nextStartTimeRef,
         sourcesRef |-> sourcesRef,
         relCount |-> relCount,
         voice |-> voice]

\* cleanup() without `streamRef.current = null` after the tracks are stopped.
CleanupKeepsStream(h) ==
    [status |-> "idle", isActive |-> FALSE,
     inputContextRef |-> Null,
     outputContextRef |-> Null,
     streamRef |-> h.streamRef,
     scriptProcessorRef |-> Null,
     inputSourceRef |-> Null,
     nextStartTimeRef |-> 0,
     sourcesRef |-> {},
     relCount |->
        Release(Release(Release(Release(Release(h.relCount,
            "processor", h.scriptProcessorRef),
            "source", h.inputSourceRef),
            "stream", h.streamRef),
            "ictx", h.inputContextRef),
            "octx", h.outputContextRef),
     voice |-> StopAll(h.voice, h.sourcesRef)]

\* cleanup(): every `if (ref.current) { release; ref.current = null }` block,
\* then setIsActive(false), setStatus('idle'), nextStartTimeRef.current = 0.
CleanupOf(h) ==
    [status |-> "idle", isActive |-> FALSE,
     inputContextRef |-> Null,
     outputContextRef |-> Null,
     streamRef |-> Null,
     scriptProcessorRef |-> Null,
     inputSourceRef |-> Null,
     nextStartTimeRef |-> 0,
     sourcesRef |-> {},
     relCount |->
        Release(Release(Release(Release(Release(h.relCount,
            "processor", h.scriptProcessorRef),
            "source", h.inputSourceRef),
            "stream", h.streamRef),
            "ictx", h.inputContextRef),
            "octx", h.outputContextRef),
     voice |-> StopAll(h.voice, h.sourcesRef)]

\* Install the result of cleanup() as the next component state.
Install(r) ==
    /\ status' = r.status
    /\ isActive' = r.isActive
    /\ inputContextRef' = r.inputContextRef
    /\ outputContextRef' = r.outputContextRef
    /\ streamRef' = r.streamRef
    /\ scriptProcessorRef' = r.scriptProcessorRef
    /\ inputSourceRef' = r.inputSourceRef
    /\ nextStartTimeRef' = r.nextStartTimeRef
    /\ sourcesRef' = r.sourcesRef
    /\ relCount' = r.relCount
    /\ voice' = r.voice


\* cleanup() as a step of the component; the closed output context has no
\* clock left to read, and no source started before is followed by another.
Cleanup(h) ==
    /\ Install(CleanupOf(h))
    /\ currentTime' = 0
    /\ lastEnd' = <<>>

\* ---------------------------------------------------------- startSession
\* The start button is rendered when status is idle or error.
StartVisible == status \in {"idle", "error"}

\* startSession whose key check comes after setStatus('connecting').
StartSessionNoKeyConnects ==
    /\ StartVisible
    /\ ~apiKey
    /\ settingsOpened' = TRUE
    /\ status' = "connecting"
    /\ UNCHANGED <<apiKey, isActive, isMuted, errorMessage, inputContextRef,
                   outputContextRef, streamRef, scriptProcessorRef,
                   inputSourceRef, nextStartTimeRef, sourcesRef, sessionRef,
                   nextSession, pc, mutedAtStart, promise, queued, captured,
                   framesSent, acquired, relCount, procCtx, procStream,
                   currentTime, lastEnd, voice, messageFailed, chatVars>>

\* startSession with an empty key: onOpenSettings(); return.
StartSessionNoKey ==
    /\ StartVisible
    /\ ~apiKey
    /\ settingsOpened' = TRUE
    /\ UNCHANGED <<apiKey, status, isActive, isMuted, errorMessage,
                   inputContextRef, outputContextRef, streamRef,
                   scriptProcessorRef, inputSourceRef, nextStartTimeRef,
                   sourcesRef, sessionRef, nextSession, pc, mutedAtStart,
                   promise, queued, captured, framesSent, acquired, relCount,
                   procCtx, procStream, currentTime, lastEnd, voice,
                   messageFailed, chatVars>>

\* startSession up to `await getUserMedia`: setStatus('connecting'),
\* setErrorMessage(''), both AudioContexts created and stored in their refs.
\* The closures created by this call keep the isMuted of this render.
StartSession ==
    /\ StartVisible
    /\ apiKey
    /\ nextSession <= MaxSessions
    /\ LET s == nextSession IN
        /\ status' = "connecting"
        /\ errorMessage' = ""
        /\ inputContextRef' = s
        /\ outputContextRef' = s
        /\ acquired' = Acquire(Acquire(acquired, "ictx", s), "octx", s)
        /\ currentTime' = 0
        /\ pc' = [pc EXCEPT ![s] = "awaitMic"]
        /\ mutedAtStart' = [mutedAtStart EXCEPT ![s] = isMuted]
        /\ nextSession' = s + 1
    /\ UNCHANGED <<apiKey, settingsOpened, isActive, isMuted, streamRef,
                   scriptProcessorRef, inputSourceRef, nextStartTimeRef,
                   sourcesRef, sessionRef, promise, queued, captured,
                   framesSent, relCount, procCtx, procStream, lastEnd, voice,
                   messageFailed, chatVars>>

\* getUserMedia resolves: streamRef.current = stream, then ai.live.connect(...)
\* is called and its promise kept (not awaited).
MicGranted(s) ==
    /\ pc[s] = "awaitMic"
    /\ streamRef' = s
    /\ acquired' = Acquire(acquired, "stream", s)
    /\ pc' = [pc EXCEPT ![s] = "connecting"]
    /\ promise' = [promise EXCEPT ![s] = "pending"]
    /\ UNCHANGED <<apiKey, settingsOpened, status, isActive, isMuted,
                   errorMessage, inputContextRef, outputContextRef,
                   scriptProcessorRef, inputSourceRef, nextStartTimeRef,
                   sourcesRef, sessionRef, nextSession, mutedAtStart, queued,
                   captured, framesSent, relCount, procCtx, procStream,
                   currentTime, lastEnd, voice, messageFailed, chatVars>>

\* The catch block: setErrorMessage(...), setStatus('error'), cleanup().
\* cleanup() ends with setStatus('idle'), the last setter of the handler.
Fail(h, msg) ==
    /\ errorMessage' = msg
    /\ Cleanup([h EXCEPT !.status = "error"])

\* getUserMedia rejects, but the rejection is swallowed and startSession goes
\* on to ai.live.connect without a stream.
MicDeniedThenConnect(s) ==
    /\ pc[s] = "awaitMic"
    /\ pc' = [pc EXCEPT ![s] = "connecting"]
    /\ promise' = [promise EXCEPT ![s] = "pending"]
    /\ UNCHANGED <<apiKey, settingsOpened, status, isActive, isMuted,
                   errorMessage, inputContextRef, outputContextRef, streamRef,
                   scriptProcessorRef, inputSourceRef, nextStartTimeRef,
                   sourcesRef, sessionRef, nextSession, mutedAtStart, queued,
                   captured, framesSent, acquired, relCount, procCtx,
                   procStream, currentTime, lastEnd, voice, messageFailed,
                   chatVars>>

\* getUserMedia rejects: control passes to the catch block of startSession.
MicDenied(s) ==
    /\ pc[s] = "awaitMic"
    /\ Fail(Held, "mic")
    /\ pc' = [pc EXCEPT ![s] = "failed"]
    /\ UNCHANGED <<apiKey, settingsOpened, isMuted, sessionRef, nextSession,
                   mutedAtStart, promise, queued, captured, framesSent,
                   acquired, procCtx, procStream, messageFailed, chatVars>>

\* ------------------------------------------------------------- callbacks
\* onopen: setStatus('connected'), setIsActive(true); unless a ref is null,
\* create the source and the processor on the objects the refs hold now.
OnOpen(s) ==
    /\ pc[s] = "connecting"
    /\ pc' = [pc EXCEPT ![s] = "open"]
    /\ status' = "connected"
    /\ isActive' = TRUE
    /\ IF inputContextRef = Null \/ streamRef = Null
       THEN UNCHANGED <<inputSourceRef, scriptProcessorRef, acquired,
                        procCtx, procStream>>
       ELSE /\ inputSourceRef' = s
            /\ scriptProcessorRef' = s
            /\ acquired' =
                  Acquire(Acquire(acquired, "source", s), "processor", s)
            /\ procCtx' = [procCtx EXCEPT ![s] = inputContextRef]
            /\ procStream' = [procStream EXCEPT ![s] = streamRef]
    /\ UNCHANGED <<apiKey, settingsOpened, isMuted, errorMessage,
                   inputContextRef, outputContextRef, streamRef,
                   nextStartTimeRef, sourcesRef, sessionRef, nextSession,
                   mutedAtStart, promise, queued, captured, framesSent,
                   relCount, currentTime, lastEnd, voice, messageFailed,
                   chatVars>>

\* The then-callbacks of one promise run last registered first.
SendAllLastFirst(s, q) == [i \in 1..Len(q) |-> <<s, q[Len(q) + 1 - i]>>]

\* The then-callbacks of one promise run in the order they were registered:
\* the sends they make on session s, for the frames q.
SendAll(s, q) == [i \in 1..Len(q) |-> <<s, q[i]>>]

\* sessionPromise resolves after the connection opened: the then-callbacks
\* registered so far run in order, each setting sessionRef and sending.
ConnectResolve(s) ==
    /\ pc[s] = "open"
    /\ promise[s] = "pending"
    /\ promise' = [promise EXCEPT ![s] = "resolved"]
    /\ framesSent' = framesSent \o SendAll(s, queued[s])
    /\ queued' = [queued EXCEPT ![s] = <<>>]
    /\ sessionRef' = IF queued[s] # <<>> THEN s ELSE sessionRef
    /\ UNCHANGED <<apiKey, settingsOpened, status, isActive, isMuted,
                   errorMessage, inputContextRef, outputContextRef, streamRef,
                   scriptProcessorRef, inputSourceRef, nextStartTimeRef,
                   sourcesRef, nextSession, pc, mutedAtStart, captured,
                   acquired, relCount, procCtx, procStream, currentTime,
                   lastEnd, voice, messageFailed, chatVars>>

\* sessionPromise rejects: nothing awaits it and nothing catches it.
ConnectReject(s) ==
    /\ pc[s] = "connecting"
    /\ promise[s] = "pending"
    /\ promise' = [promise EXCEPT ![s] = "rejected"]
    /\ pc' = [pc EXCEPT ![s] = "rejected"]
    /\ UNCHANGED <<apiKey, settingsOpened, status, isActive, isMuted,
                   errorMessage, inputContextRef, outputContextRef, streamRef,
                   scriptProcessorRef, inputSourceRef, nextStartTimeRef,
                   sourcesRef, sessionRef, nextSession, mutedAtStart, queued,
                   captured, framesSent, acquired, relCount, procCtx,
                   procStream, currentTime, lastEnd, voice, messageFailed,
                   chatVars>>

\* onerror that, after cleanup(), shows the session as connecting again.
OnErrorRetries(s) ==
    /\ pc[s] \in {"connecting", "open"}
    /\ errorMessage' = "conn"
    /\ Install([CleanupOf(Held) EXCEPT !.status = "connecting"])
    /\ currentTime' = 0
    /\ lastEnd' = <<>>
    /\ pc' = [pc EXCEPT ![s] = "errored"]
    /\ UNCHANGED <<apiKey, settingsOpened, isMuted, sessionRef, nextSession,
                   mutedAtStart, promise, queued, captured, framesSent,
                   acquired, procCtx, procStream, messageFailed, chatVars>>

\* onerror: setErrorMessage, setStatus('error'), cleanup().
OnError(s) ==
    /\ pc[s] \in {"connecting", "open"}
    /\ Fail(Held, "conn")
    /\ pc' = [pc EXCEPT ![s] = "errored"]
    /\ UNCHANGED <<apiKey, settingsOpened, isMuted, sessionRef, nextSession,
                   mutedAtStart, promise, queued, captured, framesSent,
                   acquired, procCtx, procStream, messageFailed, chatVars>>

\* onclose that resets the status and releases nothing.
OnCloseKeepsResources(s) ==
    /\ pc[s] \in {"connecting", "open", "errored"}
    /\ status' = "idle"
    /\ isActive' = FALSE
    /\ pc' = [pc EXCEPT ![s] = "closed"]
    /\ UNCHANGED <<apiKey, settingsOpened, isMuted, errorMessage,
                   inputContextRef, outputContextRef, streamRef,
                   scriptProcessorRef, inputSourceRef, nextStartTimeRef,
                   sourcesRef, sessionRef, nextSession, mutedAtStart, promise,
                   queued, captured, framesSent, acquired, relCount, procCtx,
                   procStream, currentTime, lastEnd, voice, messageFailed,
                   chatVars>>

\* onclose: cleanup().
OnClose(s) ==
    /\ pc[s] \in {"connecting", "open", "errored"}
    /\ Cleanup(Held)
    /\ pc' = [pc EXCEPT ![s] = "closed"]
    /\ UNCHANGED <<apiKey, settingsOpened, isMuted, errorMessage, sessionRef,
                   nextSession, mutedAtStart, promise, queued, captured,
                   framesSent, acquired, procCtx, procStream, messageFailed,
                   chatVars>>

\* A stop button that also clears the mute flag.
StopUnmutes ==
    /\ ~StartVisible
    /\ Cleanup(Held)
    /\ isMuted' = FALSE
    /\ UNCHANGED <<apiKey, settingsOpened, errorMessage, sessionRef,
                   nextSession, pc, mutedAtStart, promise, queued, captured,
                   framesSent, acquired, procCtx, procStream, messageFailed,
                   chatVars>>

\* The stop button (rendered when status is connecting or connected) calls
\* cleanup.
Stop ==
    /\ ~StartVisible
    /\ Cleanup(Held)
    /\ UNCHANGED <<apiKey, settingsOpened, isMuted, errorMessage, sessionRef,
                   nextSession, pc, mutedAtStart, promise, queued, captured,
                   framesSent, acquired, procCtx, procStream, messageFailed,
                   chatVars>>

\* toggleMute that also stops the tracks of the microphone stream.
ToggleMuteStopsTracks ==
    /\ status = "connected"
    /\ isMuted' = ~isMuted
    /\ relCount' = Release(relCount, "stream", streamRef)
    /\ UNCHANGED <<apiKey, settingsOpened, status, isActive, errorMessage,
                   inputContextRef, outputContextRef, streamRef,
                   scriptProcessorRef, inputSourceRef, nextStartTimeRef,
                   sourcesRef, sessionRef, nextSession, pc, mutedAtStart,
                   promise, queued, captured, framesSent, acquired, procCtx,
                   procStream, currentTime, lastEnd, voice, messageFailed,
                   chatVars>>

\* toggleMute: setIsMuted(!isMuted); the button is rendered when connected.
ToggleMute ==
    /\ status = "connected"
    /\ isMuted' = ~isMuted
    /\ UNCHANGED <<apiKey, settingsOpened, status, isActive, errorMessage,
                   inputContextRef, outputContextRef, streamRef,
                   scriptProcessorRef, inputSourceRef, nextStartTimeRef,
                   sourcesRef, sessionRef, nextSession, pc, mutedAtStart,
                   promise, queued, captured, framesSent, acquired, relCount,
                   procCtx, procStream, currentTime, lastEnd, voice,
                   messageFailed, chatVars>>

\* ---------------------------------------------------------------- capture
\* A ScriptProcessorNode calls onaudioprocess while it is connected and its
\* context is open.
Fires(s) ==
    /\ Live("processor", s)
    /\ relCount["ictx"][procCtx[s]] = 0

\* `if (isMuted) return`: isMuted is the constant of the render whose
\* startSession created the callback.
MutedInCallback(s) == mutedAtStart[s]

RECURSIVE Sum(_, _)
Sum(f, S) == IF S = {} THEN 0
             ELSE LET x == CHOOSE y \in S : TRUE IN f[x] + Sum(f, S \ {x})

\* Frames handed to sessionPromise.then so far, on all sessions.
Handed == Len(framesSent) + Sum([s \in Sessions |-> Len(queued[s])], Sessions)

\* processor.onaudioprocess: unless muted, encode the frame and register
\* sessionPromise.then(session => { sessionRef.current = session;
\* session.sendRealtimeInput(...) }).  The callback of a resolved promise runs
\* before the next event.
Capture(s) ==
    /\ Fires(s)
    /\ captured < MaxFrames
    /\ captured' = captured + 1
    /\ IF MutedInCallback(s)
       THEN UNCHANGED <<queued, framesSent, sessionRef>>
       ELSE IF promise[s] = "resolved"
               THEN /\ framesSent' = Append(framesSent, <<s, captured + 1>>)
                    /\ sessionRef' = s
                    /\ UNCHANGED queued
               ELSE /\ queued' = [queued EXCEPT ![s] = Append(@, captured + 1)]
                    /\ UNCHANGED <<framesSent, sessionRef>>
    /\ UNCHANGED <<apiKey, settingsOpened, status, isActive, isMuted,
                   errorMessage, inputContextRef, outputContextRef, streamRef,
                   scriptProcessorRef, inputSourceRef, nextStartTimeRef,
                   sourcesRef, nextSession, pc, mutedAtStart, promise,
                   acquired, relCount, procCtx, procStream, currentTime,
                   lastEnd, voice, messageFailed, chatVars>>

\* --------------------------------------------------------------- playback
Max(a, b) == IF a < b THEN b ELSE a

\* ctx.createBufferSource(): a new node; the model reuses the record of a
\* node that no longer plays.
NewVoice(vs) == CHOOSE v \in Voices :
                    /\ vs[v].st # "playing"
                    /\ \A w \in Voices : vs[w].st # "playing" => v <= w

\* The audio part skipped while the mute flag is set.
ScheduleSkipsWhenMuted(p, v, d) ==
    LET at == Max(p[1], currentTime) IN
    IF isMuted
    THEN p
    ELSE <<at + d,
           p[2] \cup {v},
           [p[3] EXCEPT ![v] = [st |-> "playing", end |-> at + d]]>>

\* The audio part with the cursor left at the start of the source.
ScheduleNoAdvance(p, v, d) ==
    LET at == Max(p[1], currentTime) IN
    <<at,
      p[2] \cup {v},
      [p[3] EXCEPT ![v] = [st |-> "playing", end |-> at + d]]>>

\* The audio part without the clamp of the cursor to ctx.currentTime.
ScheduleNoClamp(p, v, d) ==
    <<p[1] + d,
      p[2] \cup {v},
      [p[3] EXCEPT ![v] = [st |-> "playing", end |-> p[1] + d]]>>

\* The audio part with every source started at ctx.currentTime.
ScheduleAtClock(p, v, d) ==
    <<currentTime + d,
      p[2] \cup {v},
      [p[3] EXCEPT ![v] = [st |-> "playing", end |-> currentTime + d]]>>

\* onmessage, audio part: clamp the cursor to ctx.currentTime, start the
\* source at the cursor, advance the cursor by the buffer's duration, add the
\* source to sourcesRef.  p is <<cursor, sources, voices>>.
Schedule(p, v, d) ==
    LET at == Max(p[1], currentTime) IN
    <<at + d,
      p[2] \cup {v},
      [p[3] EXCEPT ![v] = [st |-> "playing", end |-> at + d]]>>

\* The interruption part without `nextStartTimeRef.current = 0`.
InterruptKeepsCursor(p) == <<p[1], {}, StopAll(p[3], p[2])>>

\* The interruption part without `sourcesRef.current.clear()`.
InterruptKeepsSet(p) == <<0, p[2], StopAll(p[3], p[2])>>

\* onmessage, interruption part: stop and forget every source, cursor = 0.
Interrupt(p) == <<0, {}, StopAll(p[3], p[2])>>

\* onmessage that ends the session on any message, as onclose does.
OnMessageCleans(s, d, intr) ==
    /\ pc[s] = "open"
    /\ d > 0 \/ intr
    /\ Cleanup(Held)
    /\ UNCHANGED <<apiKey, settingsOpened, isMuted, errorMessage, sessionRef,
                   nextSession, pc, mutedAtStart, promise, queued, captured,
                   framesSent, acquired, procCtx, procStream, messageFailed,
                   chatVars>>

\* onmessage(msg): d > 0 when msg carries audio of d ticks, intr when
\* serverContent.interrupted is set.  lastEnd keeps the end of the source this
\* message started, read from the source itself.
OnMessage(s, d, intr) ==
    /\ pc[s] = "open"
    /\ d > 0 \/ intr
    /\ LET play == d > 0 /\ outputContextRef # Null
           p0   == <<nextStartTimeRef, sourcesRef, voice>>
           p1   == IF play THEN Schedule(p0, NewVoice(voice), d) ELSE p0
           p2   == IF intr THEN Interrupt(p1) ELSE p1
       IN  /\ play => \E v \in Voices : voice[v].st # "playing"
           /\ nextStartTimeRef' = p2[1]
           /\ sourcesRef' = p2[2]
           /\ voice' = p2[3]
           /\ lastEnd' = IF intr THEN <<>>
                         ELSE IF play THEN <<p1[3][NewVoice(voice)].end>>
                         ELSE lastEnd
    /\ UNCHANGED <<apiKey, settingsOpened, status, isActive, isMuted,
                   errorMessage, inputContextRef, outputContextRef, streamRef,
                   scriptProcessorRef, inputSourceRef, sessionRef, nextSession,
                   pc, mutedAtStart, promise, queued, captured, framesSent,
                   acquired, relCount, procCtx, procStream, currentTime,
                   messageFailed, chatVars>>

\* onmessage that treats audio it cannot decode as onerror treats an error.
OnMessageMalformedEndsSession(s, intr) ==
    /\ pc[s] = "open"
    /\ outputContextRef # Null
    /\ messageFailed' = TRUE
    /\ Fail(Held, "conn")
    /\ UNCHANGED <<apiKey, settingsOpened, isMuted, sessionRef, nextSession,
                   pc, mutedAtStart, promise, queued, captured, framesSent,
                   acquired, procCtx, procStream, chatVars>>

\* onmessage(msg) with audio bytes that are no PCM data, intr as above: the
\* audio branch is entered when the output context exists, and
\* base64ToUint8Array / decodeAudioData throws before a source is created.
\* The exception ends the handler (its promise rejects, nothing handles it),
\* so the interruption part of the same message is not reached.
OnMessageMalformed(s, intr) ==
    /\ pc[s] = "open"
    /\ outputContextRef # Null
    /\ messageFailed' = TRUE
    /\ UNCHANGED <<apiKey, settingsOpened, status, isActive, isMuted,
                   errorMessage, inputContextRef, outputContextRef, streamRef,
                   scriptProcessorRef, inputSourceRef, nextStartTimeRef,
                   sourcesRef, sessionRef, nextSession, pc, mutedAtStart,
                   promise, queued, captured, framesSent, acquired, relCount,
                   procCtx, procStream, currentTime, voice, lastEnd, chatVars>>

\* source.onended at the end of the buffer:
\* sourcesRef.current.delete(source).
OnEnded(v) ==
    /\ voice[v].st = "playing"
    /\ currentTime >= voice[v].end
    /\ sourcesRef' = sourcesRef \ {v}
    /\ voice' = [voice EXCEPT ![v] = Idle("unused")]
    /\ UNCHANGED <<apiKey, settingsOpened, status, isActive, isMuted,
                   errorMessage, inputContextRef, outputContextRef, streamRef,
                   scriptProcessorRef, inputSourceRef, nextStartTimeRef,
                   sessionRef, nextSession, pc, mutedAtStart, promise, queued,
                   captured, framesSent, acquired, relCount, procCtx,
                   procStream, currentTime, lastEnd, messageFailed, chatVars>>

\* source.onended after a stop(): the same delete, on a source that the
\* flush has already removed.
OnEndedAfterStop(v) ==
    /\ voice[v].st = "stopped"
    /\ sourcesRef' = sourcesRef \ {v}
    /\ voice' = [voice EXCEPT ![v] = Idle("unused")]
    /\ UNCHANGED <<apiKey, settingsOpened, status, isActive, isMuted,
                   errorMessage, inputContextRef, outputContextRef, streamRef,
                   scriptProcessorRef, inputSourceRef, nextStartTimeRef,
                   sessionRef, nextSession, pc, mutedAtStart, promise, queued,
                   captured, framesSent, acquired, relCount, procCtx,
                   procStream, currentTime, lastEnd, messageFailed, chatVars>>

\* The output context's clock advances while the context exists.
Tick ==
    /\ outputContextRef # Null
    /\ currentTime < MaxTime
    /\ currentTime' = currentTime + 1
    /\ UNCHANGED <<apiKey, settingsOpened, status, isActive, isMuted,
                   errorMessage, inputContextRef, outputContextRef, streamRef,
                   scriptProcessorRef, inputSourceRef, nextStartTimeRef,
                   sourcesRef, sessionRef, nextSession, pc, mutedAtStart,
                   promise, queued, captured, framesSent, acquired, relCount,
                   procCtx, procStream, lastEnd, voice, messageFailed,
                   chatVars>>

\* ------------------------------------------------------------------ system
Next ==
    \/ StartSessionNoKey
    \/ StartSession
    \/ Stop
    \/ ToggleMute
    \/ Tick
    \/ \E s \in Sessions : MicGranted(s)
    \/ \E s \in Sessions : MicDenied(s)
    \/ \E s \in Sessions : OnOpen(s)
    \/ \E s \in Sessions : ConnectResolve(s)
    \/ \E s \in Sessions : ConnectReject(s)
    \/ \E s \in Sessions : OnError(s)
    \/ \E s \in Sessions : OnClose(s)
    \/ \E s \in Sessions : Capture(s)
    \/ \E s \in Sessions, d \in Durations \cup {0}, intr \in BOOLEAN :
            OnMessage(s, d, intr)
    \/ \E s \in Sessions, intr \in BOOLEAN : OnMessageMalformed(s, intr)
    \/ \E v \in Voices : OnEnded(v)
    \/ \E v \in Voices : OnEndedAfterStop(v)

Spec == Init /\ [][Next]_vars

\* The session lifecycle alone: start, stop, the microphone request and the
\* connection's open/close/error callbacks, with calls overlapping freely.
NextLifecycle ==
    \/ StartSessionNoKey
    \/ StartSession
    \/ Stop
    \/ \E s \in Sessions : MicGranted(s)
    \/ \E s \in Sessions : MicDenied(s)
    \/ \E s \in Sessions : OnOpen(s)
    \/ \E s \in Sessions : ConnectReject(s)
    \/ \E s \in Sessions : OnError(s)
    \/ \E s \in Sessions : OnClose(s)

SpecLifecycle == Init /\ [][NextLifecycle]_vars

\* A caller that starts the next session only when the connection of every
\* earlier one has ended.
Ended(s) == pc[s] \in {"unused", "failed", "closed", "rejected"}

StartSessionAfterEnd ==
    /\ \A s \in Sessions : Ended(s)
    /\ StartSession

NextSerial ==
    \/ StartSessionNoKey
    \/ StartSessionAfterEnd
    \/ Stop
    \/ ToggleMute
    \/ Tick
    \/ \E s \in Sessions : MicGranted(s)
    \/ \E s \in Sessions : MicDenied(s)
    \/ \E s \in Sessions : OnOpen(s)
    \/ \E s \in Sessions : ConnectResolve(s)
    \/ \E s \in Sessions : ConnectReject(s)
    \/ \E s \in Sessions : OnError(s)
    \/ \E s \in Sessions : OnClose(s)
    \/ \E s \in Sessions : Capture(s)
    \/ \E s \in Sessions, d \in Durations \cup {0}, intr \in BOOLEAN :
            OnMessage(s, d, intr)
    \/ \E s \in Sessions, intr \in BOOLEAN : OnMessageMalformed(s, intr)
    \/ \E v \in Voices : OnEnded(v)
    \/ \E v \in Voices : OnEndedAfterStop(v)

SpecSerial == Init /\ [][NextSerial]_vars

\* One user and one connection at a time, seen from the loudspeaker: the
\* session is started, opened, fed messages, muted, stopped, closed or failed;
\* the capture path and the promise of ai.live.connect are left out.
NextPlayback ==
    \/ StartSessionAfterEnd
    \/ Stop
    \/ ToggleMute
    \/ Tick
    \/ \E s \in Sessions : MicGranted(s)
    \/ \E s \in Sessions : OnOpen(s)
    \/ \E s \in Sessions : OnError(s)
    \/ \E s \in Sessions : OnClose(s)
    \/ \E s \in Sessions, d \in Durations \cup {0}, intr \in BOOLEAN :
          OnMessage(s, d, intr)
    \/ \E s \in Sessions, intr \in BOOLEAN : OnMessageMalformed(s, intr)
    \/ \E v \in Voices : OnEnded(v)
    \/ \E v \in Voices : OnEndedAfterStop(v)

SpecPlayback == Init /\ [][NextPlayback]_vars

\* One user and one connection at a time, seen from the microphone: the
\* session is started, opened, muted, captured from, stopped, closed or
\* failed; messages, sources and the clock are left out.
NextCapture ==
    \/ StartSessionAfterEnd
    \/ Stop
    \/ ToggleMute
    \/ \E s \in Sessions : MicGranted(s)
    \/ \E s \in Sessions : OnOpen(s)
    \/ \E s \in Sessions : ConnectResolve(s)
    \/ \E s \in Sessions : OnError(s)
    \/ \E s \in Sessions : OnClose(s)
    \/ \E s \in Sessions : Capture(s)

SpecCapture == Init /\ [][NextCapture]_vars

\* ------------------------------------------------------------ text chat
\* The textarea is enabled unless isLoading or the key is empty; onChange
\* stores what was typed.
TypeInput(b) ==
    /\ ~isLoading
    /\ apiKey
    /\ input' = b
    /\ UNCHANGED <<apiKey, liveVars, messages, isLoading, sendPc,
                   hasAddedMessage, modelMsgId, history>>

\* Messages written by the user so far.
Sends == Cardinality({i \in 1..Len(messages) : messages[i].role = "user"})

\* messages.filter(m => m.id !== 'welcome').map(...) without the filter.
HistoryOfAll(msgs) ==
    [i \in 1..Len(msgs) |-> [role |-> msgs[i].role, kind |-> msgs[i].kind]]

\* messages.filter(m => m.id !== 'welcome').map(m => ({role, parts})): the
\* kind stands for the text that is copied.
HistoryOf(msgs) ==
    LET NotWelcome(m) == m.kind # "welcome"
        kept == SelectSeq(msgs, NotWelcome)
    IN  [i \in 1..Len(kept) |-> [role |-> kept[i].role, kind |-> kept[i].kind]]

\* handleSend up to `await chat.sendMessageStream`, from the button or the
\* Enter key (both disabled while isLoading or without a key): the user
\* message is appended, the input cleared, isLoading set, and the chat is
\* created with the history of the messages this render shows.
HandleSend ==
    /\ input
    /\ apiKey
    /\ ~isLoading
    /\ sendPc = "idle"
    /\ Sends < MaxSends
    /\ messages' = Append(messages, Msg("user", "user", 1, FALSE))
    /\ input' = FALSE
    /\ isLoading' = TRUE
    /\ sendPc' = "awaitStream"
    /\ history' = HistoryOf(messages)
    /\ UNCHANGED <<apiKey, liveVars, hasAddedMessage, modelMsgId>>

\* The catch block and the finally block: an error message is appended and
\* isLoading cleared.
CatchFinally ==
    /\ messages' = Append(messages, Msg("model", "error", 1, FALSE))
    /\ isLoading' = FALSE
    /\ sendPc' = "idle"

\* The catch block without the finally block.
SendRejectedNoFinally ==
    /\ sendPc = "awaitStream"
    /\ messages' = Append(messages, Msg("model", "error", 1, FALSE))
    /\ sendPc' = "idle"
    /\ UNCHANGED <<apiKey, liveVars, input, isLoading, hasAddedMessage,
                   modelMsgId, history>>

\* ai.chats.create throws or sendMessageStream rejects.
SendRejected ==
    /\ sendPc = "awaitStream"
    /\ CatchFinally
    /\ UNCHANGED <<apiKey, liveVars, input, hasAddedMessage, modelMsgId,
                   history>>

\* sendMessageStream resolves: fullText = '', hasAddedMessage = false,
\* modelMsgId chosen (the place the message will take in the list).
StreamOpens ==
    /\ sendPc = "awaitStream"
    /\ sendPc' = "streaming"
    /\ hasAddedMessage' = FALSE
    /\ modelMsgId' = Len(messages) + 1
    /\ UNCHANGED <<apiKey, liveVars, messages, input, isLoading, history>>

\* One turn of the for-await loop: the first chunk appends the model message
\* with isPartial true, a later one replaces its text.
StreamChunk ==
    /\ sendPc = "streaming"
    /\ IF ~hasAddedMessage
       THEN /\ hasAddedMessage' = TRUE
            /\ messages' = Append(messages, Msg("model", "reply", 1, TRUE))
       ELSE /\ messages[modelMsgId].text < MaxChunks
            /\ messages' = [messages EXCEPT ![modelMsgId].text = @ + 1]
            /\ UNCHANGED hasAddedMessage
    /\ UNCHANGED <<apiKey, liveVars, input, isLoading, sendPc, modelMsgId,
                   history>>

\* The stream ends: the message with id modelMsgId, if there is one, gets
\* isPartial false; then the finally block.
StreamEnds ==
    /\ sendPc = "streaming"
    /\ messages' = [i \in 1..Len(messages) |->
                       IF i = modelMsgId
                       THEN [messages[i] EXCEPT !.isPartial = FALSE]
                       ELSE messages[i]]
    /\ isLoading' = FALSE
    /\ sendPc' = "idle"
    /\ UNCHANGED <<apiKey, liveVars, input, hasAddedMessage, modelMsgId,
                   history>>

\* The stream throws inside the for-await loop: catch and finally.
StreamFails ==
    /\ sendPc = "streaming"
    /\ CatchFinally
    /\ UNCHANGED <<apiKey, liveVars, input, hasAddedMessage, modelMsgId,
                   history>>

NextChat ==
    \/ \E b \in BOOLEAN : TypeInput(b)
    \/ HandleSend
    \/ SendRejected
    \/ StreamOpens
    \/ StreamChunk
    \/ StreamEnds
    \/ StreamFails

SpecChat == Init /\ [][NextChat]_vars

\* ================================================================ claims
\* The object each kind of resource is held through.
Ref(k) ==
    CASE k = "ictx"      -> inputContextRef
      [] k = "octx"      -> outputContextRef
      [] k = "stream"    -> streamRef
      [] k = "source"    -> inputSourceRef
      [] k = "processor" -> scriptProcessorRef

\* cleanup() has run since startSession call s began: the input context that
\* call created has been closed.
TornDown(s) == relCount["ictx"][s] > 0

\* An event of startSession call s: the microphone request settling, or a
\* callback of its connection.
EventOf(s) ==
    \/ MicGranted(s)
    \/ MicDenied(s)
    \/ OnOpen(s)
    \/ OnError(s)
    \/ OnClose(s)
    \/ \E d \in Durations \cup {0}, intr \in BOOLEAN : OnMessage(s, d, intr)

\* A handler that runs cleanup().
Teardown ==
    \/ Stop
    \/ \E s \in Sessions : MicDenied(s) \/ OnError(s) \/ OnClose(s)

\* C1: once a session has been torn down, every later event of that session
\* (microphone resolution, onopen, a message, onerror, onclose) leaves the
\* status, the held resources, the playback cursor and the active voices as
\* they were.
C1_LateEventsAreNoOps ==
    [][\A s \in Sessions :
          TornDown(s) /\ EventOf(s) =>
              UNCHANGED <<status, isActive, inputContextRef, outputContextRef,
                          streamRef, scriptProcessorRef, inputSourceRef,
                          nextStartTimeRef, sourcesRef>>]_vars

\* C2: a capture callback that fires while the session is connected and the
\* muted flag is set does not call sendRealtimeInput.
C2_NoSendWhileMuted ==
    [][\A s \in Sessions :
          status = "connected" /\ isMuted /\ Capture(s) =>
              framesSent' = framesSent]_vars

\* C3: a capture callback that fires while the session is connected and the
\* muted flag is clear hands its frame to the transport, whatever the flag
\* was when the session was started.
C3_SendAfterUnmute ==
    [][\A s \in Sessions :
          status = "connected" /\ ~isMuted /\ Capture(s) =>
              Handed' = Handed + 1]_vars

\* C4: an Error event in a connected session leaves the session in state
\* error with the reason set.
C4_ErrorEventEndsInError ==
    [][\A s \in Sessions :
          status = "connected" /\ OnError(s) =>
              status' = "error" /\ errorMessage' = "conn"]_vars

\* C5: a denied microphone request takes the connecting session to state
\* error, where it rests with the reason set.
C5_DeniedMicEndsInError ==
    [][\A s \in Sessions :
          status = "connecting" /\ MicDenied(s) =>
              status' = "error" /\ errorMessage' = "mic"]_vars

\* ai.live.connect has been called by startSession call s.
ConnectCalled(s) == promise[s] # "none"

\* C6: ai.live.connect is called only by a startSession whose microphone
\* request succeeded; a call whose request failed never connects.
C6_ConnectOnlyAfterMic ==
    \A s \in Sessions :
        /\ ConnectCalled(s) => acquired["stream"][s]
        /\ nextSession > s /\ ~acquired["stream"][s] =>
              pc[s] \in {"awaitMic", "failed"}

C6_Witness ==
    \E s \in Sessions : pc[s] = "failed" /\ ~ConnectCalled(s)

\* C7: in every state, a second cleanup() right after a first one changes
\* nothing, and no cleanup() releases a resource that was already released.
C7_CleanupIdempotent ==
    LET once == CleanupOf(Held) IN
        /\ CleanupOf(once) = once
        /\ \A k \in Kinds, s \in Sessions : once.relCount[k][s] <= 1

\* onerror and then onclose of a wired session: cleanup() ran twice.
C7_Witness ==
    \E s \in Sessions :
        /\ pc[s] = "closed"
        /\ errorMessage = "conn"
        /\ relCount["processor"][s] = 1
        /\ relCount["stream"][s] = 1

\* C8: every acquired resource is released exactly once: none is released
\* twice, and none is left unreleased with no ref holding it.
C8_ReleasedExactlyOnce ==
    \A k \in Kinds, s \in Sessions :
        /\ relCount[k][s] <= 1
        /\ Live(k, s) => Ref(k) = s

\* C9: while the status is idle nothing is held.
C9_IdleHoldsNothing ==
    status = "idle" =>
        /\ \A k \in Kinds : Ref(k) = Null
        /\ sourcesRef = {}

\* C10: right after any handler that runs cleanup(), every voice that was
\* active has been stopped, the set is empty, and every resource acquired so
\* far (processor, source, microphone stream, both contexts) is released.
C10_AllReleasedAfterTeardown ==
    [][Teardown =>
          /\ sourcesRef' = {}
          /\ \A v \in sourcesRef : voice'[v].st = "stopped"
          /\ \A k \in Kinds, s \in Sessions :
                acquired[k][s] => relCount'[k][s] >= 1]_vars

\* C11: after a handler that runs cleanup(), no connection that was open is
\* still open.
C11_TeardownClosesTransport ==
    [][Teardown =>
          \A s \in Sessions : pc[s] = "open" => pc'[s] # "open"]_vars

\* ------------------------------------------------------ playback claims
\* onmessage of call s schedules a buffer of d ticks and carries no
\* interruption.
ScheduleStep(s, d) == OnMessage(s, d, FALSE) /\ outputContextRef # Null

\* onmessage of call s carries an interruption.
InterruptStep(s) ==
    \E d \in Durations \cup {0} : OnMessage(s, d, TRUE)

\* The time handed to source.start() by the step that schedules d ticks.
StartOf(d) == voice'[NewVoice(voice)].end - d

\* C12: a source scheduled after another one, with no flush (interruption or
\* cleanup) in between, starts no earlier than any source still playing ends,
\* and starts exactly when the one before it ends, unless that end is already
\* in the past, in which case it starts at the clock.
C12_GaplessNoOverlap ==
    [][\A s \in Sessions, d \in Durations :
          ScheduleStep(s, d) /\ lastEnd # <<>> =>
              /\ \A v \in sourcesRef : voice[v].end <= StartOf(d)
              /\ IF lastEnd[1] < currentTime
                 THEN StartOf(d) = currentTime
                 ELSE StartOf(d) = lastEnd[1]]_vars

\* Two sources play back to back: the later one ends where the cursor is and
\* starts after the clock, so it was started at the end of the earlier one.
C12_Witness ==
    \E v, w \in sourcesRef :
        /\ voice[v].end < voice[w].end
        /\ lastEnd = <<voice[w].end>>
        /\ currentTime < voice[v].end

\* C13: a step that schedules a buffer of d ticks starts it at the larger of
\* the cursor and the clock, never before the clock, and leaves the cursor at
\* that start time plus d.
C13_StartAtMaxCursorClock ==
    [][\A s \in Sessions, d \in Durations :
          ScheduleStep(s, d) =>
              /\ StartOf(d) = Max(nextStartTimeRef, currentTime)
              /\ StartOf(d) >= currentTime
              /\ nextStartTimeRef' = StartOf(d) + d]_vars

\* A single source was started at or after a clock that had already moved.
C13_Witness ==
    /\ Cardinality(sourcesRef) = 1
    /\ currentTime = MaxTime
    /\ lastEnd = <<nextStartTimeRef>>
    /\ nextStartTimeRef = MaxTime + 2

C15_CursorNeverDecreases ==
    [][~Teardown => nextStartTimeRef' >= nextStartTimeRef]_vars

\* C15, amended: the cursor decreases only when an interruption or cleanup()
\* resets it to 0; a step that schedules d ticks starts the source no earlier
\* than the clock and moves the cursor forward by at least d.
C15_CursorMonotoneBetweenFlushes ==
    [][/\ nextStartTimeRef' < nextStartTimeRef =>
             /\ nextStartTimeRef' = 0
             /\ Teardown \/ \E s \in Sessions : InterruptStep(s)
       /\ \A s \in Sessions, d \in Durations :
             ScheduleStep(s, d) =>
                 /\ StartOf(d) >= currentTime
                 /\ nextStartTimeRef' >= nextStartTimeRef + d]_vars

\* In the only session so far a source was scheduled after an interruption
\* had reset the cursor and the clock had moved.
C15_Witness ==
    /\ nextSession = 2
    /\ pc[1] = "open"
    /\ currentTime > 0
    /\ \E v \in Voices : voice[v].st = "stopped"
    /\ sourcesRef # {}
    /\ lastEnd = <<nextStartTimeRef>>

\* C16: a message with an interruption, received while connected (muted or
\* not), changes nothing but the sources, the set and the cursor: status,
\* mute flag, error message, every ref to a resource, every resource, the
\* connection and the frames sent are as before.
C16_InterruptOnlyPlayback ==
    [][\A s \in Sessions :
          InterruptStep(s) /\ status = "connected" =>
              UNCHANGED <<status, isActive, isMuted, errorMessage,
                          inputContextRef, outputContextRef, streamRef,
                          scriptProcessorRef, inputSourceRef, sessionRef,
                          pc, promise, mutedAtStart, queued, framesSent,
                          acquired, relCount, procCtx, procStream>>]_vars

\* The only session so far, muted, has been interrupted and still holds its
\* microphone, processor and contexts.
C16_Witness ==
    /\ nextSession = 2
    /\ pc[1] = "open"
    /\ status = "connected"
    /\ isMuted
    /\ \E v \in Voices : voice[v].st = "stopped"
    /\ \A k \in Kinds : Ref(k) = 1 /\ Live(k, 1)

\* C17: toggleMute negates the mute flag and changes nothing else, so two
\* toggles in a row restore the state.
C17_ToggleMuteOnlyFlag ==
    [][ToggleMute =>
          /\ isMuted' = ~isMuted
          /\ UNCHANGED <<apiKey, settingsOpened, status, isActive,
                         errorMessage, inputContextRef, outputContextRef,
                         streamRef, scriptProcessorRef, inputSourceRef,
                         nextStartTimeRef, sourcesRef, sessionRef, pc,
                         promise, mutedAtStart, queued, framesSent, acquired,
                         relCount, procCtx, procStream, voice,
                         currentTime>>]_vars

\* Muted while a source plays and every resource is held and live.
C17_Witness ==
    /\ isMuted
    /\ status = "connected"
    /\ sourcesRef # {}
    /\ \E s \in Sessions : \A k \in Kinds : Ref(k) = s /\ Live(k, s)

\* C18: the set holds exactly the sources that play; a source enters it only
\* in a message that schedules audio, leaves it only when it ends, in an
\* interruption or in cleanup(), and the ended event of a stopped source
\* leaves the set as it is.
C18_ActiveVoicesExact ==
    [][/\ sourcesRef' = {v \in Voices : voice'[v].st = "playing"}
       /\ sourcesRef' \ sourcesRef # {} =>
             \E s \in Sessions, d \in Durations : ScheduleStep(s, d)
       /\ \A v \in sourcesRef \ sourcesRef' :
             \/ OnEnded(v)
             \/ Teardown
             \/ \E s \in Sessions : InterruptStep(s)
       /\ \A v \in Voices : OnEndedAfterStop(v) =>
             sourcesRef' = sourcesRef]_vars

\* A stopped source whose ended event is still to come, next to a source
\* that plays.
C18_Witness ==
    \E v, w \in Voices :
        /\ voice[v].st = "stopped"
        /\ voice[w].st = "playing"
        /\ sourcesRef = {w}

C20_RejectEndsInError ==
    [][\A s \in Sessions :
          ConnectReject(s) /\ status = "connecting" =>
              /\ status' = "error"
              /\ streamRef' = Null
              /\ inputContextRef' = Null
              /\ outputContextRef' = Null]_vars

\* C21: a message whose audio cannot be decoded changes neither the status,
\* the error message, the cursor, the set of sources, the sources, any ref or
\* resource, nor the connection, which stays open for later messages.
C21_DecodeFailureDropsChunk ==
    [][\A s \in Sessions, intr \in BOOLEAN :
          OnMessageMalformed(s, intr) =>
              /\ pc'[s] = "open"
              /\ UNCHANGED <<status, isActive, isMuted, errorMessage,
                             nextStartTimeRef, sourcesRef, voice, lastEnd,
                             inputContextRef, outputContextRef, streamRef,
                             scriptProcessorRef, inputSourceRef, sessionRef,
                             acquired, relCount, procCtx, procStream, pc,
                             promise, currentTime>>]_vars

\* The only session so far has dropped a message, is still connected and
\* plays a source.
C21_Witness ==
    /\ messageFailed
    /\ nextSession = 2
    /\ pc[1] = "open"
    /\ status = "connected"
    /\ sourcesRef # {}
    /\ \A k \in Kinds : Ref(k) = 1 /\ Live(k, 1)

\* C22: audio received on the connection of call s is scheduled only on the
\* output context call s created, and the processor whose frames go to the
\* connection of call s is wired only to the input context and the stream
\* call s created.
C22_NoSharedResources ==
    [][\A s \in Sessions :
          /\ \A d \in Durations, intr \in BOOLEAN :
                OnMessage(s, d, intr) /\ outputContextRef # Null =>
                    outputContextRef = s
          /\ OnOpen(s) =>
                /\ procCtx'[s] \in {Null, s}
                /\ procStream'[s] \in {Null, s}
          /\ Capture(s) /\ ~MutedInCallback(s) =>
                procStream[s] = s]_vars

\* C23: the status becomes connecting only in a startSession call made while
\* the start button is shown (status idle or error) and the key is set; no
\* callback, error or cleanup() sets it.
C23_ConnectingOnlyByStart ==
    [][status' = "connecting" /\ status # "connecting" =>
          StartSession /\ status \in {"idle", "error"}]_vars

\* A second startSession call after the connection of the first one failed.
C23_Witness ==
    /\ status = "connecting"
    /\ nextSession = 3
    /\ pc[1] = "errored"
    /\ pc[2] = "awaitMic"

\* C24: the frames sent on one session are sent in the order they were
\* captured, whether they waited for sessionPromise or not.
C24_SentInCaptureOrder ==
    \A i, j \in 1..Len(framesSent) :
        i < j /\ framesSent[i][1] = framesSent[j][1] =>
            framesSent[i][2] < framesSent[j][2]

\* Two frames of one session have been sent.
C24_Witness ==
    \E i, j \in 1..Len(framesSent) :
        i < j /\ framesSent[i][1] = framesSent[j][1]

\* C25: sendRealtimeInput is called only while the status is connected.
C25_SendOnlyWhileConnected ==
    [][framesSent' # framesSent => status = "connected"]_vars

\* C26: while the mute flag is set, a message with audio of d ticks starts a
\* source at the larger of the cursor and the clock, advances the cursor to
\* that start plus d and adds the source to the set, as it does when the flag
\* is clear.
C26_MuteLeavesPlayback ==
    [][\A s \in Sessions, d \in Durations :
          ScheduleStep(s, d) /\ isMuted =>
              /\ StartOf(d) = Max(nextStartTimeRef, currentTime)
              /\ nextStartTimeRef' = Max(nextStartTimeRef, currentTime) + d
              /\ sourcesRef' = sourcesRef \cup {NewVoice(voice)}
              /\ voice'[NewVoice(voice)].st = "playing"]_vars

\* The only session so far is muted and two sources play.
C26_Witness ==
    /\ isMuted
    /\ nextSession = 2
    /\ pc[1] = "open"
    /\ Cardinality(sourcesRef) = 2

\* C27: a handler that runs cleanup() leaves the mute flag as it was, and so
\* does startSession: a session started after a muted one starts muted.
C27_CleanupKeepsMute ==
    [][Teardown \/ StartSession => isMuted' = isMuted]_vars

\* The second startSession call was made with the mute flag still set.
C27_Witness ==
    /\ nextSession = 3
    /\ mutedAtStart[2]
    /\ isMuted

\* C28: startSession with an empty key calls onOpenSettings and changes
\* nothing else: status, error message, refs, resources, connections.
C28_EmptyKeyOnlyOpensSettings ==
    [][StartSessionNoKey =>
          /\ settingsOpened'
          /\ UNCHANGED <<status, isActive, isMuted, errorMessage,
                         inputContextRef, outputContextRef, streamRef,
                         scriptProcessorRef, inputSourceRef, sessionRef,
                         nextSession, pc, promise, acquired, relCount,
                         nextStartTimeRef, sourcesRef>>]_vars

\* The settings were opened by a start without a key; nothing was acquired.
C28_Witness ==
    /\ ~apiKey
    /\ settingsOpened
    /\ status = "idle"
    /\ \A k \in Kinds, s \in Sessions : ~acquired[k][s]
    /\ \A s \in Sessions : promise[s] = "none"

\* C29: whenever no handleSend call is in flight, isLoading is false, however
\* the last call ended: stream finished, with or without chunks, or failed.
C29_LoadingClearedAfterSend == sendPc = "idle" => ~isLoading

\* A send whose stream failed after a chunk has ended.
C29_Witness ==
    /\ sendPc = "idle"
    /\ ~isLoading
    /\ \E i \in 1..Len(messages) - 1 :
          /\ messages[i].kind = "reply"
          /\ messages[i + 1].kind = "error"

\* C30: whenever no handleSend call is in flight and isLoading is false, no
\* message of the list has isPartial set.
C30_NoPartialAfterSend ==
    sendPc = "idle" /\ ~isLoading =>
        \A i \in 1..Len(messages) : ~messages[i].isPartial

\* C31: the history given to the service by a send holds no welcome message
\* and is empty or begins with a message of the user; and handleSend is never
\* reached with a text typed and no key, so no missing-key message is ever in
\* the list.
C31_HistoryStartsWithUser ==
    /\ \A i \in 1..Len(history) : history[i].kind # "welcome"
    /\ history = <<>> \/ history[1].role = "user"
    /\ input => apiKey

\* A send made after an earlier send had failed: its history holds the
\* earlier user message and the error message.
C31_Witness ==
    /\ Len(history) >= 2
    /\ \E i \in 1..Len(history) : history[i].kind = "error"
====
